---- MODULE Spec2Model ----
(***************************************************************************)
(* Scoring and comparison engine of Relocation-Lumio.                      *)
(*                                                                         *)
(*   src/utils/city_score.py   parse_price, parse_percentage, the four     *)
(*                             calculate_* sub-scores, get_city_score      *)
(*   src/routers/app.py        compare_cities with its two nested helpers  *)
(*                             extract_numeric and                         *)
(*                             calculate_normalized_percentage             *)
(*                                                                         *)
(* Python strings are sequences of one-character strings.  A Python float  *)
(* read from a string is a decimal m * 10^e, an infinity or a NaN (Dec);   *)
(* float arithmetic is exact rational arithmetic extended with the         *)
(* infinities and NaN (Num).  Binary rounding of doubles and the sign of   *)
(* zero are not modelled.  A Python call ends in a value or in an          *)
(* exception: [st |-> "ok", v |-> value] or [st |-> <exception class>].    *)
(***************************************************************************)
EXTENDS Integers, Sequences, FiniteSets, TLC

VARIABLES args, ret

vars == <<args, ret>>

(***************************************************************************)
(* Outcomes of a call.                                                     *)
(***************************************************************************)
NoValue == [k |-> "none"]

Ok(v) == [st |-> "ok", v |-> v]

Raise(e) == [st |-> e, v |-> NoValue]

Pending == [st |-> "pending", v |-> NoValue]

(***************************************************************************)
(* Characters and the str methods the code uses.                           *)
(***************************************************************************)
DigitChars == {"0", "1", "2", "3", "4", "5", "6", "7", "8", "9"}

DigitVal(c) ==
    CASE c = "0" -> 0 [] c = "1" -> 1 [] c = "2" -> 2 [] c = "3" -> 3
      [] c = "4" -> 4 [] c = "5" -> 5 [] c = "6" -> 6 [] c = "7" -> 7
      [] c = "8" -> 8 [] c = "9" -> 9

\* str.isspace characters; of these only the blank and the newline occur here
SpaceChars == {" ", "\n", "\t", "\r"}

RECURSIVE replace(_, _, _)
\* s.replace(old, new) for a one-character old
replace(s, old, new) ==
    IF s = <<>> THEN <<>>
    ELSE (IF Head(s) = old THEN new ELSE <<Head(s)>>) \o replace(Tail(s), old, new)

RECURSIVE lstrip(_)
lstrip(s) ==
    IF s # <<>> /\ Head(s) \in SpaceChars THEN lstrip(Tail(s)) ELSE s

RECURSIVE rstrip(_)
rstrip(s) ==
    IF s # <<>> /\ s[Len(s)] \in SpaceChars THEN rstrip(SubSeq(s, 1, Len(s) - 1)) ELSE s

\* s.strip()
strip(s) == rstrip(lstrip(s))

\* suffix.upper() on the letters a suffix can be
upper(s) ==
    [i \in 1..Len(s) |->
        CASE s[i] = "k" -> "K" [] s[i] = "m" -> "M" [] s[i] = "b" -> "B"
          [] s[i] = "t" -> "T" [] OTHER -> s[i]]

\* length of the longest prefix of s made of digits
RECURSIVE DigitRun(_)
DigitRun(s) ==
    IF s # <<>> /\ Head(s) \in DigitChars THEN 1 + DigitRun(Tail(s)) ELSE 0

Drop(s, n) == SubSeq(s, n + 1, Len(s))

Take(s, n) == SubSeq(s, 1, n)

(***************************************************************************)
(* Decimal values: what float() reads from a string.                       *)
(***************************************************************************)
RECURSIVE DecNorm(_, _)
\* m * 10^e with the factors of ten moved out of m
DecNorm(m, e) ==
    IF m = 0 THEN [k |-> "fin", m |-> 0, e |-> 0]
    ELSE IF m % 10 = 0 THEN DecNorm(m \div 10, e + 1)
    ELSE [k |-> "fin", m |-> m, e |-> e]

DecInf(sign) == [k |-> "inf", m |-> sign, e |-> 0]

DecNaN == [k |-> "nan", m |-> 0, e |-> 0]

DecNeg(x) == IF x.k = "nan" THEN x ELSE [x EXCEPT !.m = -x.m]

\* x * y, for the finite values parse_price multiplies
DecMul(x, y) == DecNorm(x.m * y.m, x.e + y.e)

RECURSIVE IntOf(_)
\* the integer a digit string writes
IntOf(ds) ==
    IF ds = <<>> THEN 0 ELSE 10 * IntOf(Take(ds, Len(ds) - 1)) + DigitVal(ds[Len(ds)])

RECURSIVE DecOfDigits(_, _)
\* the digit string ds scaled by 10^e; trailing zeros go to the exponent first
DecOfDigits(ds, e) ==
    IF ds # <<>> /\ ds[Len(ds)] = "0" THEN DecOfDigits(Take(ds, Len(ds) - 1), e + 1)
    ELSE DecNorm(IntOf(ds), e)

\* digits, digits.digits, digits. or .digits
IsDecimalLiteral(s) ==
    LET i == DigitRun(s)
        rest == Drop(s, i)
        f == IF rest # <<>> /\ Head(rest) = "." THEN DigitRun(Tail(rest)) ELSE 0
    IN  \/ i > 0 /\ rest = <<>>
        \/ /\ rest # <<>> /\ Head(rest) = "."
           /\ i + f > 0
           /\ Len(rest) = 1 + f

DecimalLiteral(s) ==
    LET i == DigitRun(s)
        frac == IF Len(s) > i THEN Drop(s, i + 1) ELSE <<>>
    IN  DecOfDigits(Take(s, i) \o frac, -Len(frac))

\* float(s) for a str s: blanks stripped, an optional sign, then inf, infinity,
\* nan or a decimal literal; anything else is a ValueError.  (Exponents, digit
\* group underscores and upper-case spellings need characters that no input
\* of this model holds.)
float(s) ==
    LET special == {<<"i", "n", "f">>, <<"i", "n", "f", "i", "n", "i", "t", "y">>,
                    <<"n", "a", "n">>}
        val(body) == IF body = <<"n", "a", "n">> THEN DecNaN
                     ELSE IF body \in special THEN DecInf(1)
                     ELSE DecimalLiteral(body)
        read(body, neg) ==
            IF body \in special \/ IsDecimalLiteral(body)
            THEN Ok(IF neg THEN DecNeg(val(body)) ELSE val(body))
            ELSE Raise("ValueError")
        signed(t) == t # <<>> /\ Head(t) \in {"-", "+"}
        parse(t) == read(IF signed(t) THEN Tail(t) ELSE t, signed(t) /\ Head(t) = "-")
    IN  parse(strip(s))

(***************************************************************************)
(* src/utils/city_score.py: the value parser                               *)
(***************************************************************************)
max_percentage == 99

min_percentage == 55

SuffixChars == {"K", "M", "B", "T", "k", "m", "b", "t"}

\* the multipliers table with its default
multipliers_get(suffix) ==
    CASE suffix = <<"K">> -> DecNorm(1, 3)
      [] suffix = <<"M">> -> DecNorm(1, 6)
      [] suffix = <<"B">> -> DecNorm(1, 9)
      [] suffix = <<"T">> -> DecNorm(1, 12)
      [] OTHER -> DecNorm(1, 0)

\* re.match(r'^(\d+(\.\d+)?)([KMBT]?)$', s, re.IGNORECASE): the groups
\* (number, suffix) of the match, or no match.  $ matches at the end of the
\* string and also just before a newline that ends the string.
price_match(s) ==
    LET i == DigitRun(s)
        afterInt == Drop(s, i)
        f == IF afterInt # <<>> /\ Head(afterInt) = "." THEN DigitRun(Tail(afterInt)) ELSE 0
        n == IF f > 0 THEN i + 1 + f ELSE i
        afterNum == Drop(s, n)
        hasSuffix == afterNum # <<>> /\ Head(afterNum) \in SuffixChars
        tail == IF hasSuffix THEN Tail(afterNum) ELSE afterNum
    IN  IF i > 0 /\ tail \in {<<>>, <<"\n">>}
        THEN [matched |-> TRUE, number |-> Take(s, n),
              suffix |-> IF hasSuffix THEN <<Head(afterNum)>> ELSE <<>>]
        ELSE [matched |-> FALSE, number |-> <<>>, suffix |-> <<>>]

parse_price(price_str) ==
    LET result(match) ==
            IF ~match.matched THEN Raise("ValueError")
            ELSE Ok(DecMul(float(match.number).v, multipliers_get(upper(match.suffix))))
    IN  result(price_match(
            replace(replace(replace(price_str, "$", <<>>), ",", <<>>), " ", <<>>)))

parse_percentage(percent_str) == float(replace(percent_str, "%", <<>>))

(***************************************************************************)
(* src/routers/app.py: compare_cities.extract_numeric                      *)
(***************************************************************************)
extract_numeric(value) ==
    float(strip(replace(replace(replace(replace(replace(replace(value,
        "$", <<>>),
        "K", <<"0", "0", "0">>),
        "M", <<"0", "0", "0", "0", "0", "0">>),
        "B", <<"0", "0", "0", "0", "0", "0", "0", "0", "0">>),
        ",", <<>>),
        " ", <<>>)))

(***************************************************************************)
(* Float arithmetic: exact rationals n/d (d > 0, lowest terms), the two    *)
(* infinities and NaN, with the IEEE rules Python follows for them.        *)
(***************************************************************************)
Abs(i) == IF i < 0 THEN -i ELSE i

Sign(i) == IF i < 0 THEN -1 ELSE IF i > 0 THEN 1 ELSE 0

RECURSIVE Gcd(_, _)
Gcd(a, b) == IF b = 0 THEN a ELSE Gcd(b, a % b)

NaN == [k |-> "nan", n |-> 0, d |-> 0]

Inf(sign) == [k |-> "inf", n |-> sign, d |-> 0]

Rat(n, d) ==
    LET g == Gcd(Abs(n), Abs(d))
    IN  [k |-> "fin", n |-> Sign(d) * (n \div g), d |-> Abs(d) \div g]

Int2Num(i) == [k |-> "fin", n |-> i, d |-> 1]

\* the float a decimal value is
ToNum(x) ==
    CASE x.k = "nan" -> NaN
      [] x.k = "inf" -> Inf(x.m)
      [] OTHER -> IF x.e >= 0 THEN Rat(x.m * 10^(x.e), 1) ELSE Rat(x.m, 10^(-x.e))

NumNeg(x) == IF x.k = "nan" THEN x ELSE [x EXCEPT !.n = -x.n]

NumAbs(x) == IF x.k = "nan" THEN x ELSE [x EXCEPT !.n = Abs(x.n)]

NumAdd(x, y) ==
    CASE x.k = "nan" \/ y.k = "nan" -> NaN
      [] x.k = "inf" /\ y.k = "inf" -> IF x.n = y.n THEN x ELSE NaN
      [] x.k = "inf" -> x
      [] y.k = "inf" -> y
      [] OTHER -> LET g == Gcd(x.d, y.d)
                  IN  Rat(x.n * (y.d \div g) + y.n * (x.d \div g), x.d * (y.d \div g))

NumSub(x, y) == NumAdd(x, NumNeg(y))

NumMul(x, y) ==
    CASE x.k = "nan" \/ y.k = "nan" -> NaN
      [] x.k = "inf" \/ y.k = "inf" ->
            IF x.n = 0 \/ y.n = 0 THEN NaN ELSE Inf(Sign(x.n) * Sign(y.n))
      [] OTHER -> LET a == Rat(x.n, y.d)
                      b == Rat(y.n, x.d)
                  IN  Rat(a.n * b.n, a.d * b.d)

IsZero(x) == x.k = "fin" /\ x.n = 0

\* x / y for a y that is not zero (Python raises ZeroDivisionError on zero)
NumDiv(x, y) ==
    CASE x.k = "nan" \/ y.k = "nan" -> NaN
      [] x.k = "inf" /\ y.k = "inf" -> NaN
      [] x.k = "inf" -> Inf(x.n * Sign(y.n))
      [] y.k = "inf" -> Int2Num(0)
      [] OTHER -> LET a == Rat(x.n, y.n)
                      b == Rat(y.d, x.d)
                  IN  Rat(a.n * b.n, a.d * b.d)

\* x < y; every comparison with NaN is false
NumLt(x, y) ==
    CASE x.k = "nan" \/ y.k = "nan" -> FALSE
      [] x.k = "inf" /\ y.k = "inf" -> x.n < y.n
      [] x.k = "inf" -> x.n < 0
      [] y.k = "inf" -> y.n > 0
      [] OTHER -> x.n * y.d < y.n * x.d

NumGt(x, y) == NumLt(y, x)

NumLe(x, y) == x.k # "nan" /\ y.k # "nan" /\ ~NumLt(y, x)

\* min(a, b) and max(a, b) of Python: the first argument unless the second
\* is strictly smaller (larger)
min(a, b) == IF NumLt(b, a) THEN b ELSE a

max(a, b) == IF NumGt(b, a) THEN b ELSE a

\* round(x, 2): to the nearest hundredth, ties to the even one
round2(x) ==
    IF x.k # "fin" THEN x
    ELSE LET whole == x.n \div x.d
             part == 100 * (x.n % x.d)
             q == 100 * whole + (part \div x.d)
             r == part % x.d
             up == 2 * r > x.d \/ (2 * r = x.d /\ q % 2 = 1)
         IN  Rat(IF up THEN q + 1 ELSE q, 100)

(***************************************************************************)
(* src/utils/city_score.py: the single-city scorer                         *)
(***************************************************************************)
\* the outcome of the first call that raises, if one does
RECURSIVE FirstRaise(_)
FirstRaise(outcomes) ==
    IF outcomes = <<>> THEN Ok(NoValue)
    ELSE IF Head(outcomes).st # "ok" THEN Head(outcomes)
    ELSE FirstRaise(Tail(outcomes))

\* sum(factors): 0 + factors[0] + factors[1] + ...
RECURSIVE sum(_)
sum(factors) ==
    IF factors = <<>> THEN Int2Num(0)
    ELSE NumAdd(sum(Take(factors, Len(factors) - 1)), factors[Len(factors)])

\* city_data[field]: a missing key is a KeyError
subscript(city_data, field) ==
    IF field \in DOMAIN city_data THEN Ok(city_data[field]) ELSE Raise("KeyError")

\* float(city_data[field])
float_field(city_data, field) ==
    IF subscript(city_data, field).st # "ok" THEN subscript(city_data, field)
    ELSE float(city_data[field])

\* parse_percentage(city_data[field])
percentage_field(city_data, field) ==
    IF subscript(city_data, field).st # "ok" THEN subscript(city_data, field)
    ELSE parse_percentage(city_data[field])

\* (weighted_score / 100) * 70 + min_percentage, then min(score, max_percentage)
display(raw) ==
    min(NumAdd(NumMul(NumDiv(raw, Int2Num(100)), Int2Num(70)), Int2Num(min_percentage)),
        Int2Num(max_percentage))

calculate_housing_affordability(home_price, median_income) ==
    LET score(home_price_value, median_income_value) ==
            IF home_price_value.st # "ok" THEN home_price_value
            ELSE IF median_income_value.st # "ok" THEN median_income_value
            ELSE IF IsZero(ToNum(median_income_value.v)) THEN Raise("ZeroDivisionError")
            ELSE LET ratio0 == NumDiv(ToNum(home_price_value.v),
                                      ToNum(median_income_value.v))
                     ratio == max(Int2Num(2), min(Int2Num(10), ratio0))
                 IN  Ok(min(NumAdd(NumMul(NumDiv(NumSub(Int2Num(10), ratio), Int2Num(8)),
                                          Int2Num(70)),
                                   Int2Num(min_percentage)),
                            Int2Num(max_percentage)))
    IN  score(parse_price(home_price), parse_price(median_income))

calculate_quality_of_life(city_data) ==
    LET fields == << "education", "healthcare_fitness", "weather_grade",
                     "air_quality_index", "commute_transit_score", "accessibility",
                     "culture_entertainment" >>
        score(parsed) ==
            LET factors == [i \in 1..Len(parsed) |-> ToNum(parsed[i].v)]
                average_score == NumDiv(sum(factors), Int2Num(Len(parsed)))
            IN  IF FirstRaise(parsed).st # "ok" THEN FirstRaise(parsed)
                ELSE Ok(display(average_score))
    IN  score([i \in 1..Len(fields) |-> float_field(city_data, fields[i])])

calculate_job_market_strength(city_data) ==
    LET percentages == << "unemployment_rate", "recent_job_growth" >>
        score(parsed) ==
            LET unemployment_rate == ToNum(parsed[1].v)
                recent_job_growth == ToNum(parsed[2].v)
                future_job_growth_index == ToNum(parsed[3].v)
                unemployment_score ==
                    NumMul(NumDiv(NumSub(Int2Num(10), unemployment_rate), Int2Num(10)),
                           Int2Num(100))
                recent_job_growth_score ==
                    NumMul(NumDiv(NumAdd(recent_job_growth, Int2Num(5)), Int2Num(10)),
                           Int2Num(100))
                future_job_growth_score == future_job_growth_index
                \* the weights 0.4, 0.2, 0.4
                weighted_score ==
                    NumAdd(NumAdd(NumMul(unemployment_score, Rat(4, 10)),
                                  NumMul(recent_job_growth_score, Rat(2, 10))),
                           NumMul(future_job_growth_score, Rat(4, 10)))
            IN  IF FirstRaise(parsed).st # "ok" THEN FirstRaise(parsed)
                ELSE Ok(display(weighted_score))
    IN  score([i \in 1..3 |->
                  IF i <= 2 THEN percentage_field(city_data, percentages[i])
                  ELSE float_field(city_data, "future_job_growth_index")])

calculate_living_affordability(city_data) ==
    LET costs == << "utilities", "food_groceries", "transportation_cost" >>
        taxes == << "sales_tax", "state_income_tax", "property_tax" >>
        score(parsed) ==
            LET cost_factors == [i \in 1..3 |-> ToNum(parsed[i].v)]
                tax_factors == [i \in 1..3 |-> ToNum(parsed[i + 3].v)]
                cost_index == NumDiv(sum(cost_factors), Int2Num(3))
                normalized_cost_index ==
                    NumMul(NumSub(Int2Num(1), NumDiv(cost_index, Int2Num(150))),
                           Int2Num(100))
                average_tax_rate == NumDiv(sum(tax_factors), Int2Num(3))
                normalized_tax_score ==
                    NumMul(NumSub(Int2Num(1), NumDiv(average_tax_rate, Int2Num(15))),
                           Int2Num(100))
                \* the weights 0.7, 0.3
                weighted_score ==
                    NumAdd(NumMul(normalized_cost_index, Rat(7, 10)),
                           NumMul(normalized_tax_score, Rat(3, 10)))
            IN  IF FirstRaise(parsed).st # "ok" THEN FirstRaise(parsed)
                ELSE Ok(display(weighted_score))
    IN  score([i \in 1..6 |->
                  IF i <= 3 THEN float_field(city_data, costs[i])
                  ELSE percentage_field(city_data, taxes[i - 3])])

get_city_score(city_data) ==
    LET keys == << subscript(city_data, "home_price"),
                   subscript(city_data, "median_household_income") >>
        response(housing_affordability, quality_of_life,
                 job_market_strength, living_affordability) ==
            LET calls == << housing_affordability, quality_of_life,
                            job_market_strength, living_affordability >>
                overall_city_score ==
                    NumDiv(NumAdd(NumAdd(NumAdd(housing_affordability.v,
                                                quality_of_life.v),
                                         job_market_strength.v),
                                  living_affordability.v),
                           Int2Num(4))
            IN  IF FirstRaise(calls).st # "ok" THEN FirstRaise(calls)
                ELSE Ok([housing_affordability |-> round2(housing_affordability.v),
                         quality_of_life |-> round2(quality_of_life.v),
                         job_market_strength |-> round2(job_market_strength.v),
                         living_affordability |-> round2(living_affordability.v),
                         overall_city_score |-> round2(overall_city_score)])
    IN  response(IF FirstRaise(keys).st # "ok" THEN FirstRaise(keys)
                 ELSE calculate_housing_affordability(city_data["home_price"],
                                                      city_data["median_household_income"]),
                 calculate_quality_of_life(city_data),
                 calculate_job_market_strength(city_data),
                 calculate_living_affordability(city_data))

(***************************************************************************)
(* src/routers/app.py: compare_cities                                      *)
(***************************************************************************)
\* the try block with the difference left signed (no abs)
try_without_abs(city1_value, city2_value, is_higher_better) ==
    LET body(v1, v2) ==
            IF v1.st # "ok" THEN v1
            ELSE IF v2.st # "ok" THEN v2
            ELSE LET diff == NumSub(ToNum(v2.v), ToNum(v1.v))
                     total == NumAdd(ToNum(v1.v), ToNum(v2.v))
                     percentage == IF ~IsZero(total)
                                   THEN NumMul(NumDiv(diff, total), Int2Num(100))
                                   ELSE Int2Num(0)
                 IN  Ok(IF is_higher_better THEN percentage ELSE NumNeg(percentage))
    IN  body(extract_numeric(city1_value), extract_numeric(city2_value))

\* the try block dividing without the total != 0 guard
try_unguarded(city1_value, city2_value, is_higher_better) ==
    LET body(v1, v2) ==
            IF v1.st # "ok" THEN v1
            ELSE IF v2.st # "ok" THEN v2
            ELSE LET diff == NumAbs(NumSub(ToNum(v2.v), ToNum(v1.v)))
                     total == NumAdd(ToNum(v1.v), ToNum(v2.v))
                     percentage == NumMul(NumDiv(diff, total), Int2Num(100))
                 IN  IF IsZero(total) THEN Raise("ZeroDivisionError")
                     ELSE Ok(IF is_higher_better THEN percentage ELSE NumNeg(percentage))
    IN  body(extract_numeric(city1_value), extract_numeric(city2_value))

\* the try block returning the percentage whatever is_higher_better says
try_ignoring_flag(city1_value, city2_value, is_higher_better) ==
    LET body(v1, v2) ==
            IF v1.st # "ok" THEN v1
            ELSE IF v2.st # "ok" THEN v2
            ELSE LET diff == NumAbs(NumSub(ToNum(v2.v), ToNum(v1.v)))
                     total == NumAdd(ToNum(v1.v), ToNum(v2.v))
                     percentage == IF ~IsZero(total)
                                   THEN NumMul(NumDiv(diff, total), Int2Num(100))
                                   ELSE Int2Num(0)
                 IN  Ok(percentage)
    IN  body(extract_numeric(city1_value), extract_numeric(city2_value))

\* the try block of calculate_normalized_percentage
normalized_percentage_try(city1_value, city2_value, is_higher_better) ==
    LET body(v1, v2) ==
            IF v1.st # "ok" THEN v1
            ELSE IF v2.st # "ok" THEN v2
            ELSE LET diff == NumAbs(NumSub(ToNum(v2.v), ToNum(v1.v)))
                     total == NumAdd(ToNum(v1.v), ToNum(v2.v))
                     percentage == IF ~IsZero(total)
                                   THEN NumMul(NumDiv(diff, total), Int2Num(100))
                                   ELSE Int2Num(0)
                 IN  Ok(IF is_higher_better THEN percentage ELSE NumNeg(percentage))
    IN  body(extract_numeric(city1_value), extract_numeric(city2_value))

\* an except clause that catches nothing
except_nothing(attempt) == attempt

\* the except clause: a ValueError becomes 0, any other exception goes on
except_ValueError(attempt) ==
    IF attempt.st = "ValueError" THEN Ok(Int2Num(0)) ELSE attempt

calculate_normalized_percentage(city1_value, city2_value, is_higher_better) ==
    except_ValueError(normalized_percentage_try(city1_value, city2_value, is_higher_better))

\* calculate_normalized_percentage(city1[field], city2[field], ...): the two
\* subscriptions come first, and a missing key is a KeyError
percentage_of(city1, city2, field, is_higher_better) ==
    IF field \notin DOMAIN city1 \/ field \notin DOMAIN city2 THEN Raise("KeyError")
    ELSE calculate_normalized_percentage(city1[field], city2[field], is_higher_better)

Hundred == Int2Num(100)

\* the label with the comparison turned round
strength_inverted(score) == IF NumLt(score, Int2Num(50)) THEN "City 1" ELSE "City 2"

strength(score) == IF NumGt(score, Int2Num(50)) THEN "City 1" ELSE "City 2"

compare_cities(city1, city2) ==
    LET \* the fifteen calls, in the order the code makes them
        fields == << "home_price", "property_tax", "home_appreciation_rate",
                     "education", "healthcare_fitness", "weather_grade",
                     "air_quality_index", "culture_entertainment",
                     "unemployment_rate", "recent_job_growth", "future_job_growth_index",
                     "state_income_tax", "sales_tax", "utilities", "transportation_cost" >>
        \* the calls made with is_higher_better=False
        lower_is_better == { "home_price", "property_tax", "air_quality_index",
                             "unemployment_rate", "state_income_tax", "sales_tax",
                             "utilities", "transportation_cost" }
        response(housing_affordability, quality_of_life,
                 job_market_strength, living_affordability) ==
            LET overall_city_score ==
                    NumDiv(NumAdd(NumAdd(NumAdd(housing_affordability, quality_of_life),
                           job_market_strength), living_affordability), Int2Num(4))
            IN  [housing_affordability |-> round2(housing_affordability),
                 quality_of_life |-> round2(quality_of_life),
                 job_market_strength |-> round2(job_market_strength),
                 living_affordability |-> round2(living_affordability),
                 overall_city_score |-> round2(overall_city_score),
                 strengths |->
                    [housing_affordability |-> strength(housing_affordability),
                     quality_of_life |-> strength(quality_of_life),
                     job_market_strength |-> strength(job_market_strength),
                     living_affordability |-> strength(living_affordability)]]
        metrics(calls) ==
            LET c(i) == calls[i].v
                \* (100 - c1 + c2 + c3) / 3, read left to right
                housing_affordability ==
                    NumDiv(NumAdd(NumAdd(NumSub(Hundred, c(1)), c(2)), c(3)), Int2Num(3))
                \* (c4 + c5 + c6 + 100 - c7 + c8) / 5
                quality_of_life ==
                    LET upto6 == NumAdd(NumAdd(c(4), c(5)), c(6))
                    IN  NumDiv(NumAdd(NumSub(NumAdd(upto6, Hundred), c(7)), c(8)),
                               Int2Num(5))
                \* (100 - c9 + c10 + c11) / 3
                job_market_strength ==
                    NumDiv(NumAdd(NumAdd(NumSub(Hundred, c(9)), c(10)), c(11)), Int2Num(3))
                \* (100 - c12 + 100 - c13 + 100 - c14 + 100 - c15) / 4
                living_affordability ==
                    LET upto12 == NumSub(Hundred, c(12))
                        upto13 == NumSub(NumAdd(upto12, Hundred), c(13))
                        upto14 == NumSub(NumAdd(upto13, Hundred), c(14))
                        upto15 == NumSub(NumAdd(upto14, Hundred), c(15))
                    IN  NumDiv(upto15, Int2Num(4))
            IN  IF FirstRaise(calls).st # "ok" THEN FirstRaise(calls)
                ELSE Ok(response(housing_affordability, quality_of_life,
                                 job_market_strength, living_affordability))
    IN  metrics([i \in 1..Len(fields) |->
                    percentage_of(city1, city2, fields[i], fields[i] \notin lower_is_better)])

(***************************************************************************)
(* Inputs of the value parsers.                                            *)
(***************************************************************************)
MaxLen == 3

Alphabet == {"0", "1", "5", ".", "$", ",", " ", "K", "k", "T", "%", "-", "\n"}

StringsUpTo(alphabet, n) == UNION {[1..l -> alphabet] : l \in 0..n}

\* the strings spec.md gives as examples, and the fraction-with-suffix case
SampleStrings ==
    { <<"$", "1", ".", "5", "M">>, <<"2", ",", "5", "0", "0">>,
      <<"6", ".", "5", "%">>, <<"1", ".", "5", "K">>, <<"1", ".", "5", "T">>,
      <<"i", "n", "f">>, <<"n", "a", "n">> }

ParserInputs == StringsUpTo(Alphabet, MaxLen) \cup SampleStrings

ParserOps == {"parse_price", "parse_percentage", "extract_numeric"}

InitParse ==
    /\ args \in ParserInputs
    /\ ret = [o \in ParserOps |-> Pending]

CallParsePrice ==
    /\ ret["parse_price"] = Pending
    /\ ret' = [ret EXCEPT !["parse_price"] = parse_price(args)]
    /\ UNCHANGED args

CallParsePercentage ==
    /\ ret["parse_percentage"] = Pending
    /\ ret' = [ret EXCEPT !["parse_percentage"] = parse_percentage(args)]
    /\ UNCHANGED args

CallExtractNumeric ==
    /\ ret["extract_numeric"] = Pending
    /\ ret' = [ret EXCEPT !["extract_numeric"] = extract_numeric(args)]
    /\ UNCHANGED args

NextParse == CallParsePrice \/ CallParsePercentage \/ CallExtractNumeric

SpecParse == InitParse /\ [][NextParse]_vars

(***************************************************************************)
(* Metric records: the string columns of CityMetrics                       *)
(* (src/Models/models.py) that the engine reads.                           *)
(***************************************************************************)
Fields ==
    { "home_price", "property_tax", "home_appreciation_rate", "education",
      "healthcare_fitness", "weather_grade", "air_quality_index",
      "commute_transit_score", "accessibility", "culture_entertainment",
      "unemployment_rate", "recent_job_growth", "future_job_growth_index",
      "median_household_income", "state_income_tax", "utilities",
      "food_groceries", "sales_tax", "transportation_cost" }

\* a record whose every metric reads v
Uniform(v) == [f \in Fields |-> v]

\* a city with plausible, well-formed metrics
Nominal ==
    [ home_price |-> <<"3", "0", "0", "K">>,
      property_tax |-> <<"1", ".", "2">>,
      home_appreciation_rate |-> <<"5">>,
      education |-> <<"7", "0">>,
      healthcare_fitness |-> <<"6", "0">>,
      weather_grade |-> <<"5", "0">>,
      air_quality_index |-> <<"4", "0">>,
      commute_transit_score |-> <<"5", "0">>,
      accessibility |-> <<"5", "0">>,
      culture_entertainment |-> <<"8", "0">>,
      unemployment_rate |-> <<"5", "%">>,
      recent_job_growth |-> <<"1", "%">>,
      future_job_growth_index |-> <<"5", "0">>,
      median_household_income |-> <<"6", "0", "K">>,
      state_income_tax |-> <<"5", "%">>,
      utilities |-> <<"1", "0", "0">>,
      food_groceries |-> <<"1", "0", "0">>,
      sales_tax |-> <<"5", "%">>,
      transportation_cost |-> <<"1", "0", "0">> ]

\* record with the metric field reading value
Edit(record, field, value) == [record EXCEPT ![field] = value]

\* record without the key field
Remove(record, field) == [f \in DOMAIN record \ {field} |-> record[f]]

(***************************************************************************)
(* The pairwise difference primitive on two values, and compare_cities on  *)
(* the two cities whose metrics all read those values.                     *)
(***************************************************************************)
DiffLen == 2

DiffAlphabet == {"0", "1", "-", "."}

DiffSamples ==
    { <<"i", "n", "f">>, <<"-", "i", "n", "f">>, <<"n", "a", "n">>,
      <<"$", "1", ".", "5", "M">>, <<"1", ".", "5", "K">>, <<"1", "K">>, <<"1", "k">>,
      <<"6", ".", "5", "%">>, <<"1", ",", "0">>, <<" ", "1">> }

DiffValues == StringsUpTo(DiffAlphabet, DiffLen) \cup DiffSamples

InitDiff ==
    /\ args \in DiffValues \X DiffValues
    /\ ret = [term |-> Pending, is_higher_better |-> FALSE, comparison |-> Pending]

CallNormalizedPercentage ==
    /\ ret.term = Pending
    /\ \E is_higher_better \in BOOLEAN :
          ret' = [ret EXCEPT
                    !.term = calculate_normalized_percentage(args[1], args[2],
                                                             is_higher_better),
                    !.is_higher_better = is_higher_better]
    /\ UNCHANGED args

CallCompareUniform ==
    /\ ret.comparison = Pending
    /\ ret' = [ret EXCEPT !.comparison = compare_cities(Uniform(args[1]), Uniform(args[2]))]
    /\ UNCHANGED args

NextDiff == CallNormalizedPercentage \/ CallCompareUniform

SpecDiff == InitDiff /\ [][NextDiff]_vars

(***************************************************************************)
(* compare_cities on two metric records, in both argument orders.          *)
(***************************************************************************)
CompareFields ==
    { "home_price", "property_tax", "home_appreciation_rate", "education",
      "healthcare_fitness", "weather_grade", "air_quality_index",
      "culture_entertainment", "unemployment_rate", "recent_job_growth",
      "future_job_growth_index", "state_income_tax", "sales_tax", "utilities",
      "transportation_cost" }

\* two cities with small metric values
CityA ==
    [ Nominal EXCEPT
        !.home_price = <<"1", "5">>,
        !.property_tax = <<"1", ".", "5">>,
        !.home_appreciation_rate = <<"5">>,
        !.education = <<"5">>,
        !.healthcare_fitness = <<"1", "5">>,
        !.weather_grade = <<"5">>,
        !.air_quality_index = <<"1", "5">>,
        !.culture_entertainment = <<"5">>,
        !.unemployment_rate = <<"5", "%">>,
        !.recent_job_growth = <<"1", "%">>,
        !.future_job_growth_index = <<"1", "5">>,
        !.state_income_tax = <<"5", "%">>,
        !.sales_tax = <<"5", "%">>,
        !.utilities = <<"5">>,
        !.transportation_cost = <<"1", "5">> ]

CityB ==
    [ Nominal EXCEPT
        !.home_price = <<"5">>,
        !.property_tax = <<"1", ".", "5">>,
        !.home_appreciation_rate = <<"1", "5">>,
        !.education = <<"1", "5">>,
        !.healthcare_fitness = <<"1", "5">>,
        !.weather_grade = <<"0">>,
        !.air_quality_index = <<"5">>,
        !.culture_entertainment = <<"5">>,
        !.unemployment_rate = <<"5", "%">>,
        !.recent_job_growth = <<"5", "%">>,
        !.future_job_growth_index = <<"5">>,
        !.state_income_tax = <<"0", "%">>,
        !.sales_tax = <<"5", "%">>,
        !.utilities = <<"1", "5">>,
        !.transportation_cost = <<"1", "5">> ]

CompareEdits == 1

CompareValues ==
    { <<"0">>, <<"-", "5">>, <<"i", "n", "f">>, <<"6", ".", "5", "%">> }

UniformValues ==
    { <<>>, <<"0">>, <<"5">>, <<"-", "5">>, <<"i", "n", "f">>, <<"n", "a", "n">>, <<"6", ".", "5", "%">>, <<"1", ".", "5", "K">>, <<"$", "2", ",", "5", "0", "0">> }

\* one metric of the first city, or of both cities, rewritten (the second
\* city alone is the first one of the swapped call)
EditPair(pair, target, field, value) ==
    << Edit(pair[1], field, value),
       IF target = "both" THEN Edit(pair[2], field, value) ELSE pair[2] >>

RECURSIVE EditedPairs(_)
\* the pairs at most n rewritten metrics away from (A, B), (B, A) or (A, A)
EditedPairs(n) ==
    IF n = 0 THEN {<<CityA, CityB>>, <<CityB, CityA>>, <<CityA, CityA>>}
    ELSE EditedPairs(n - 1) \cup
         { EditPair(pair, target, field, value) :
             pair \in EditedPairs(n - 1), target \in {"city1", "both"},
             field \in CompareFields, value \in CompareValues }

ComparePairs ==
    EditedPairs(CompareEdits)
      \cup {<<Uniform(v), Uniform(w)>> : v \in UniformValues, w \in UniformValues}

InitCompare ==
    /\ args \in ComparePairs
    /\ ret = [forward |-> Pending, swapped |-> Pending]

CallCompareCities ==
    /\ ret.forward = Pending
    /\ ret' = [ret EXCEPT !.forward = compare_cities(args[1], args[2])]
    /\ UNCHANGED args

CallCompareCitiesSwapped ==
    /\ ret.forward # Pending
    /\ ret.swapped = Pending
    /\ ret' = [ret EXCEPT !.swapped = compare_cities(args[2], args[1])]
    /\ UNCHANGED args

NextCompare == CallCompareCities \/ CallCompareCitiesSwapped

SpecCompare == InitCompare /\ [][NextCompare]_vars

(***************************************************************************)
(* get_city_score on one metric record.                                    *)
(***************************************************************************)
ScoreEdits == 2

ScoreValues ==
    { <<>>, <<"0">>, <<"1", "0", "0">>, <<"4", "0", "0">>, <<"3", "0", "%">>, <<"0", "%">>, <<"-", "5">>, <<"$", "1", ".", "5", "M">>, <<"6", ".", "5", "%">>, <<"5", "%", "%">>, <<"n", "a", "n">>, <<"1", "0", "K">> }

RECURSIVE EditedRecords(_)
\* the records at most n rewritten or missing metrics away from the nominal city
EditedRecords(n) ==
    IF n = 0 THEN {Nominal}
    ELSE EditedRecords(n - 1) \cup
         { IF field \in DOMAIN record THEN Edit(record, field, value) ELSE record :
             record \in EditedRecords(n - 1), field \in Fields, value \in ScoreValues }
         \cup { Remove(record, field) :
             record \in EditedRecords(n - 1), field \in Fields }

InitScore ==
    /\ args \in EditedRecords(ScoreEdits)
    /\ ret = Pending

CallGetCityScore ==
    /\ ret = Pending
    /\ ret' = get_city_score(args)
    /\ UNCHANGED args

NextScore == CallGetCityScore

SpecScore == InitScore /\ [][NextScore]_vars

(***************************************************************************)
(* Properties.                                                             *)
(***************************************************************************)
Parsable(value) == extract_numeric(value).st = "ok"

ParsesFinite(value) == Parsable(value) /\ extract_numeric(value).v.k = "fin"

NumberOf(value) == ToNum(extract_numeric(value).v)

ScoreNames ==
    { "housing_affordability", "quality_of_life", "job_market_strength",
      "living_affordability", "overall_city_score" }

DimensionNames == ScoreNames \ {"overall_city_score"}

LivingFields == {"state_income_tax", "sales_tax", "utilities", "transportation_cost"}

\* a complete comparison result
FullComparison(outcome) ==
    /\ outcome.st = "ok"
    /\ DOMAIN outcome.v = ScoreNames \cup {"strengths"}
    /\ DOMAIN outcome.v.strengths = DimensionNames
    /\ \A d \in DimensionNames : outcome.v.strengths[d] \in {"City 1", "City 2"}

\* s with '$', ',' and ' ' removed
PriceText(s) == replace(replace(replace(s, "$", <<>>), ",", <<>>), " ", <<>>)

IsDigits(s) == s # <<>> /\ \A i \in 1..Len(s) : s[i] \in DigitChars

\* digits, or digits '.' digits
IsPlainNumber(s) ==
    \/ IsDigits(s)
    \/ \E i \in 1..Len(s) : s[i] = "." /\ IsDigits(Take(s, i - 1)) /\ IsDigits(Drop(s, i))

\* a plain number followed by at most one of K M B T k m b t
IsPriceShape(t) ==
    \/ IsPlainNumber(t)
    \/ t # <<>> /\ t[Len(t)] \in SuffixChars /\ IsPlainNumber(Take(t, Len(t) - 1))

SuffixExponent(c) ==
    CASE c \in {"K", "k"} -> 3 [] c \in {"M", "m"} -> 6
      [] c \in {"B", "b"} -> 9 [] c \in {"T", "t"} -> 12

\* the value a string of price shape stands for
PriceValue(t) ==
    IF t[Len(t)] \in SuffixChars
    THEN LET x == DecimalLiteral(Take(t, Len(t) - 1))
         IN  DecNorm(x.m, x.e + SuffixExponent(t[Len(t)]))
    ELSE DecimalLiteral(t)

\* C5: parse_price accepts exactly the strings that, once '$', ',' and ' '
\* are removed, are digits with an optional '.digits' and at most one
\* K/M/B/T suffix in either case; it returns the number times the multiplier
\* of the suffix, and fails with a ValueError on every other string.
C5_ParsePriceAcceptsExactly ==
    ret["parse_price"] # Pending =>
        IF IsPriceShape(PriceText(args))
        THEN ret["parse_price"] = Ok(PriceValue(PriceText(args)))
        ELSE ret["parse_price"] = Raise("ValueError")

\* what is left of s once a single trailing '%' is taken off
WithoutTrailingPercent(s) ==
    IF s # <<>> /\ s[Len(s)] = "%" THEN Take(s, Len(s) - 1) ELSE s

\* C6: parse_percentage takes off one trailing '%' only and reads the rest as
\* a number; a rest that is not a number (a '%' at the start or in the
\* middle, two '%' signs) is a ValueError, never a value.
C6_ParsePercentageSingleTrailing ==
    ret["parse_percentage"] # Pending =>
        ret["parse_percentage"] = float(WithoutTrailingPercent(args))

\* C10: on every string parse_price accepts, extract_numeric returns the same
\* number as parse_price.
C10_ExtractNumericAgrees ==
    (ret["parse_price"].st = "ok" /\ ret["extract_numeric"] # Pending) =>
        ret["extract_numeric"] = ret["parse_price"]

C7_Original ==
    (ret.term # Pending /\ Parsable(args[1]) /\ Parsable(args[2])) =>
        /\ ret.term.st = "ok"
        /\ IsZero(NumAdd(NumberOf(args[1]), NumberOf(args[2]))) => IsZero(ret.term.v)
        /\ extract_numeric(args[1]) = extract_numeric(args[2]) => IsZero(ret.term.v)

\* C7 amended: the primitive never raises ZeroDivisionError; it returns 0 for
\* two parsable values whose sum is 0 and for two equal values that parse to
\* a finite number.
C7_NoDivisionByZero ==
    (ret.term # Pending /\ Parsable(args[1]) /\ Parsable(args[2])) =>
        /\ ret.term.st = "ok"
        /\ IsZero(NumAdd(NumberOf(args[1]), NumberOf(args[2]))) => IsZero(ret.term.v)
        /\ (ParsesFinite(args[1]) /\ extract_numeric(args[1]) = extract_numeric(args[2]))
              => IsZero(ret.term.v)

C7_Witness ==
    /\ ret.term = Ok(Int2Num(0))
    /\ ParsesFinite(args[1]) /\ ParsesFinite(args[2])
    /\ ~IsZero(NumberOf(args[1]))
    /\ IsZero(NumAdd(NumberOf(args[1]), NumberOf(args[2])))

\* every living-affordability metric of city is unparsable or a finite number
LivingFinite(city) ==
    \A f \in LivingFields : ~Parsable(city[f]) \/ ParsesFinite(city[f])

\* C2 as stated: comparing a record with itself labels all four dimensions
\* "City 2".
C2_Original ==
    (ret.forward # Pending /\ args[1] = args[2]) =>
        /\ ret.forward.st = "ok"
        /\ \A d \in DimensionNames : ret.forward.v.strengths[d] = "City 2"

\* C2 amended: comparing a record with itself labels housing_affordability,
\* quality_of_life and job_market_strength "City 2"; living_affordability
\* scores exactly 100 and is labelled "City 1" when each of its four metrics
\* is unparsable or parses to a finite number, and is "City 2" otherwise.
C2_IdenticalRecords ==
    (ret.forward # Pending /\ args[1] = args[2]) =>
        /\ ret.forward.st = "ok"
        /\ \A d \in DimensionNames \ {"living_affordability"} :
              ret.forward.v.strengths[d] = "City 2"
        /\ IF LivingFinite(args[1])
           THEN /\ ret.forward.v.living_affordability = Int2Num(100)
                /\ ret.forward.v.strengths["living_affordability"] = "City 1"
           ELSE ret.forward.v.strengths["living_affordability"] = "City 2"

C2_Witness ==
    /\ ret.forward # Pending /\ args[1] = args[2]
    /\ args[1] # CityA /\ ParsesFinite(args[1]["utilities"])
    /\ ret.forward.v.strengths["living_affordability"] = "City 1"
    /\ ret.forward.v.strengths["housing_affordability"] = "City 2"

\* C8: compare_cities(a, b) and compare_cities(b, a) return the same scores,
\* the same overall score and the same strengths labels.
C8_ArgumentOrder ==
    ret.swapped # Pending => ret.swapped = ret.forward

C8_Witness ==
    /\ ret.swapped # Pending /\ ret.swapped.st = "ok"
    /\ args[1] # args[2]
    /\ ParsesFinite(args[1]["home_price"]) /\ ParsesFinite(args[2]["home_price"])
    /\ NumberOf(args[1]["home_price"]) # NumberOf(args[2]["home_price"])
    /\ ret.forward.v.strengths["housing_affordability"] = "City 1"

\* every living-affordability metric of city is unparsable or parses to x >= 0
\* (the infinity included)
LivingNonNegative(city) ==
    \A f \in LivingFields :
        ~Parsable(city[f]) \/ NumLe(Int2Num(0), NumberOf(city[f]))

\* C9 as stated: when every living-affordability metric of both records is
\* unparsable or parses to a non-negative number, the living_affordability
\* score is at least 100 and its label is "City 1".
C9_Original ==
    (ret.forward # Pending /\ LivingNonNegative(args[1]) /\ LivingNonNegative(args[2])) =>
        /\ ret.forward.st = "ok"
        /\ NumLe(Int2Num(100), ret.forward.v.living_affordability)
        /\ ret.forward.v.strengths["living_affordability"] = "City 1"

\* C9 amended: when every living-affordability metric of both records is
\* unparsable or parses to a finite non-negative number, the
\* living_affordability score is at least 100 and its label is "City 1".
C9_LivingAlwaysCity1 ==
    (/\ ret.forward # Pending
     /\ LivingNonNegative(args[1]) /\ LivingNonNegative(args[2])
     /\ LivingFinite(args[1]) /\ LivingFinite(args[2])) =>
        /\ ret.forward.st = "ok"
        /\ NumLe(Int2Num(100), ret.forward.v.living_affordability)
        /\ ret.forward.v.strengths["living_affordability"] = "City 1"

C9_Witness ==
    /\ ret.forward # Pending
    /\ LivingNonNegative(args[1]) /\ LivingNonNegative(args[2])
    /\ LivingFinite(args[1]) /\ LivingFinite(args[2])
    /\ ParsesFinite(args[1]["utilities"]) /\ ParsesFinite(args[2]["utilities"])
    /\ NumberOf(args[1]["utilities"]) # NumberOf(args[2]["utilities"])
    /\ NumLt(Int2Num(100), ret.forward.v.living_affordability)

\* the metrics get_city_score reads
ScoreFields == Fields \ {"home_appreciation_rate"}

CurrencyFields == {"home_price", "median_household_income"}

PercentFields ==
    {"sales_tax", "state_income_tax", "unemployment_rate", "recent_job_growth"}

\* a plain number with a trailing '%'
IsPercentage(s) ==
    s # <<>> /\ s[Len(s)] = "%" /\ IsPlainNumber(Take(s, Len(s) - 1))

\* the metric is there and written in the encoding of its column
WellFormedField(record, f) ==
    /\ f \in DOMAIN record
    /\ CASE f \in CurrencyFields -> IsPriceShape(PriceText(record[f]))
         [] f \in PercentFields -> IsPercentage(record[f])
         [] f = "property_tax" -> IsPlainNumber(record[f]) \/ IsPercentage(record[f])
         [] OTHER -> IsPlainNumber(record[f])

WellFormed(record) == \A f \in ScoreFields : WellFormedField(record, f)

\* C1: for a record with every required metric present and well formed, the
\* four sub-scores and the overall score that get_city_score returns all lie
\* in [55, 99].
C1_ScoresInWindow ==
    (ret # Pending /\ WellFormed(args) /\ ret.st = "ok") =>
        \A name \in ScoreNames :
            /\ NumLe(Int2Num(min_percentage), ret.v[name])
            /\ NumLe(ret.v[name], Int2Num(max_percentage))

\* the parser get_city_score applies to the metric fails on it
Unreadable(record, f) ==
    /\ f \in DOMAIN record
    /\ CASE f \in CurrencyFields -> parse_price(record[f]).st # "ok"
         [] f \in PercentFields \cup {"property_tax"} ->
                parse_percentage(record[f]).st # "ok"
         [] OTHER -> float(record[f]).st # "ok"

\* C3: a record with a required metric missing or malformed makes
\* get_city_score end in a ValueError and return nothing, and a ValueError is
\* the only error get_city_score ends in.
C3_FailFastInvalidFormat ==
    ret # Pending =>
        /\ ret.st \in {"ok", "ValueError"}
        /\ (\E f \in ScoreFields : f \notin DOMAIN args \/ Unreadable(args, f))
              => ret.st = "ValueError"
        /\ ret.st = "ok" => DOMAIN ret.v = ScoreNames

====
